---- MODULE Spec2Model ----
(***************************************************************************)
(* A state-machine model of libavformat/ftp.c: the FTP client's command    *)
(* engine on the control connection and the two-connection transfer state  *)
(* machine behind ftp_open / ftp_read / ftp_write / ftp_seek / ftp_close.  *)
(*                                                                         *)
(* One FTPContext is modelled.  Every function of the file that talks to   *)
(* a transport is one step (or a few steps, one per transport call); the   *)
(* nesting of calls is kept in an explicit stack of return labels.  The    *)
(* server and the TCP transport are the environment: what they answer is   *)
(* chosen nondeterministically in each step that calls them.               *)
(***************************************************************************)
EXTENDS Integers, Sequences, FiniteSets, TLC

(* ------------------------------ bounds --------------------------------- *)

\* largest file size the server holds or reports with SIZE
MaxFile == 2
\* largest size argument of ftp_read / ftp_write
MaxSize == 2
\* most reply lines the server sends for one command
MaxReply == 2
\* most reply lines that may still be unread in the control socket when
\* ftp_status returns
MaxStale == MaxReply - 1

\* what strtoll may make of the server's 213 line: a size, or a negative
SizeReplies == (0 - 1) .. MaxFile
\* positions the caller is allowed to reach by writing, offsets it seeks to
MaxPos == MaxFile + 1
SeekOffsets == (0 - 1) .. MaxPos
\* the observer counts the reconnect attempts of one ftp_read up to here
MaxReconn == 2

(* --------------------------- program constants ------------------------- *)

\* AVERROR(EIO), AVERROR(EACCES), AVERROR(EINVAL)
EIO == -5
EACCES == -13
EINVAL == -22
\* the error a failed transport call (ffurl_open, ffurl_read, ffurl_write)
\* returns: some negative AVERROR, here AVERROR(EPIPE)
TransportErr == -32

\* accepted reply codes, one table per verb (0-terminated arrays in the source)
connect_codes == {220}
user_codes == {331, 230}
pass_codes == {230}
pasv_codes == {227}
pwd_codes == {257}
size_codes == {213}
retr_codes == {150}
stor_codes == {150}
type_codes == {200}
rest_codes == {350}

\* a reply code no table accepts (the 530 / 421 of a refusing server)
Refused == 530

Whences == {"AVSEEK_SIZE", "SEEK_SET", "SEEK_CUR", "SEEK_END", "OTHER"}
OpenFlags == {"READ", "WRITE", "READ_WRITE"}
\* the user:password part of the URL.  An empty one makes ftp_auth log in as
\* "anonymous" with a password, which it then treats like "user:pass".
Credentials == {"user", "user:pass"}

Max(a, b) == IF a >= b THEN a ELSE b
Min(a, b) == IF a <= b THEN a ELSE b
Range(q) == {q[i] : i \in DOMAIN q}

(* ------------------------------- state --------------------------------- *)

VARIABLES
    s,   \* the FTPContext (plus h->is_streamed of its URLContext)
    l,   \* the running call: pc, stack of return labels, arguments and locals
    g,   \* what an observer recorded about the call in progress
    e    \* the environment: the control socket's unread input and the server

vars == <<s, l, g, e>>

(* ----------------------------- line reader ----------------------------- *)

\* ftp_flush_control_input: block flag set, ONE ftp_get_line (the loop's
\* condition err > 0 never holds, ftp_get_line returns 0 or a negative), flag
\* restored.  With an empty buffer ftp_getc returns AVERROR_EXIT at once and
\* nothing is read from the transport.
ftp_flush_control_input(c) ==
    IF c.control_buf = <<>> THEN c
    ELSE [c EXCEPT !.control_buf = Tail(@)]

\* the loop body of ftp_status over the lines it gets: the first line whose
\* code is in response_codes is the result, later lines are only consumed
RECURSIVE ftp_status_scan(_, _, _)
ftp_status_scan(lines, response_codes, result) ==
    IF lines = <<>> THEN result
    ELSE IF result = 0 /\ Head(lines) \in response_codes
         THEN ftp_status_scan(Tail(lines), response_codes, Head(lines))
         ELSE ftp_status_scan(Tail(lines), response_codes, result)

\* the place, among the lines ftp_status gets, of the one whose code it
\* returns (0: none)
ftp_status_match(lines, response_codes) ==
    LET I == {i \in DOMAIN lines : lines[i] \in response_codes}
    IN  IF I = {} THEN 0 ELSE CHOOSE i \in I : \A j \in I : i <= j

\* ftp_status on a control socket holding `pending` (its first `old` lines
\* were there before the call).  The first ftp_get_line blocks
\* (conn_control_block_flag = 0) and one ffurl_read returns everything that
\* has arrived: at least the old lines, and at least one line.  After the
\* first line the flag is 1, so ftp_getc returns AVERROR_EXIT as soon as the
\* buffer is empty and never reads the transport again: lines that arrive
\* later stay in the socket.  The up to 100 waits of wait_count run with the
\* flag still 1 and an empty buffer and read nothing.  With nothing to read
\* the blocking ffurl_read ends with an error or 0 and result 0 is returned.
\* For the observer: stale says that the line matched was in the socket
\* before the call (a reply to an earlier command); missed says that 0 was
\* returned although a line with an accepted code arrived while the function
\* was waiting (in_polls: the unread lines arrived during its waits).
ftp_status(c, pending, old, response_codes) ==
    LET avail == c.control_buf \o pending
        n == Len(avail)
        first == Max(1, Len(c.control_buf) + old)
    IN  IF avail = <<>>
        THEN {[ret |-> 0, rx |-> <<>>, flag |-> 0,
               stale |-> FALSE, missed |-> FALSE]}
        ELSE {LET got == SubSeq(avail, 1, k)
                  ret == ftp_status_scan(got, response_codes, 0)
                  at == ftp_status_match(got, response_codes)
              IN  [ret |-> ret,
                   rx |-> SubSeq(avail, k + 1, n),
                   flag |-> 1,
                   stale |-> at >= 1 /\ at <= Len(c.control_buf) + old,
                   missed |-> /\ ret = 0 /\ in_polls
                              /\ \E j \in k + 1 .. n : avail[j] \in response_codes]
              : k \in {j \in first .. n : n - j <= MaxStale},
                in_polls \in BOOLEAN}

(* ------------------------------ the server ----------------------------- *)

\* the reply lines a server may send for a command with the given table
ReplySeqs(response_codes) ==
    UNION {[1 .. n -> response_codes \cup {Refused}] : n \in 0 .. MaxReply}

\* what the server does with a command it answered with `rep`: REST sets the
\* restart marker, RETR starts sending at the marker and clears it
Server(env, cmd, arg, rep) ==
    IF cmd = "REST" /\ 350 \in Range(rep) THEN [env EXCEPT !.marker = arg]
    ELSE IF cmd = "RETR" /\ 150 \in Range(rep)
         THEN [env EXCEPT !.off = env.marker, !.marker = 0]
    ELSE IF cmd = "STOR" /\ 150 \in Range(rep)
         THEN [env EXCEPT !.marker = 0]
    ELSE env

(* ---------------------------- command engine --------------------------- *)

\* ftp_send_command: flush, ffurl_write, ftp_status.  The set of outcomes:
\* ret is the function's result, c and env the context and environment after.
\* ffurl_write on a NULL conn_control dereferences it: crash.  A failed
\* ffurl_write returns its negative error and no reply is read.
ftp_send_command(c, env, cmd, arg, response_codes) ==
    LET f == ftp_flush_control_input(c)
    IN  IF ~c.conn_control
        THEN {[ret |-> 0, crash |-> TRUE,
               c |-> [f EXCEPT !.conn_control_block_flag = 0],
               env |-> env, wrote |-> FALSE, ideal |-> FALSE,
               cmd |-> cmd, stale |-> FALSE, missed |-> FALSE]}
        ELSE
        {[ret |-> TransportErr, crash |-> FALSE,
          c |-> [f EXCEPT !.conn_control_block_flag = 0],
          env |-> env, wrote |-> FALSE, ideal |-> FALSE,
          cmd |-> cmd, stale |-> FALSE, missed |-> FALSE]}
        \cup
        UNION {
          {[ret |-> o.ret, crash |-> FALSE,
            c |-> [f EXCEPT !.conn_control_block_flag = o.flag,
                            !.control_buf = <<>>],
            env |-> [Server(env, cmd, arg, rep) EXCEPT !.ctl_rx = o.rx],
            wrote |-> TRUE,
            ideal |-> /\ env.ctl_rx = <<>> /\ o.rx = <<>>
                      /\ Len(rep) = 1 /\ rep[1] \in response_codes,
            cmd |-> cmd, stale |-> o.stale, missed |-> o.missed]
             : o \in ftp_status(f, env.ctl_rx \o rep, Len(env.ctl_rx),
                                response_codes)}
          : rep \in ReplySeqs(response_codes)}

\* ftp_close_both_connections without its s->state = DISCONNECTED
ftp_close_both_connections_keeps_state(c) ==
    [c EXCEPT !.conn_control = FALSE, !.conn_data = FALSE, !.position = 0]

\* ftp_close_both_connections without its s->position = 0
ftp_close_both_connections_keeps_position(c) ==
    [c EXCEPT !.conn_control = FALSE, !.conn_data = FALSE,
              !.state = "DISCONNECTED"]

\* ffurl_closep on both handles, position and state reset
ftp_close_both_connections(c) ==
    [c EXCEPT !.conn_control = FALSE, !.conn_data = FALSE,
              !.position = 0, !.state = "DISCONNECTED"]

\* the sockets are gone with the handles: unread input, marker and transfer
CloseSockets(env) == [env EXCEPT !.ctl_rx = <<>>, !.marker = 0, !.off = -1]

(* --------------------------- call bookkeeping -------------------------- *)

\* return v from the running function: to the caller's label, or, from the
\* protocol callback itself, to the application
Locals0 ==
    [pc |-> "new", stack |-> <<>>, rv |-> 0, ret |-> 0,
     flags |-> "READ", write_seekable |-> 0, size |-> 0, read |-> 0, retry_done |-> 0,
     pos |-> 0, new_pos |-> 0]

Return(ll, v) ==
    IF ll.stack = <<>>
    THEN [Locals0 EXCEPT !.pc = "idle", !.ret = v]
    ELSE [ll EXCEPT !.pc = Head(ll.stack), !.stack = Tail(ll.stack), !.rv = v]

Call(ll, target, cont) ==
    [ll EXCEPT !.pc = target, !.stack = <<cont>> \o ll.stack]

\* the process is gone: a NULL URLContext or NULL reply line was dereferenced
Crashed(ll) == [Locals0 EXCEPT !.pc = "crashed"]

\* The observer's record g.  The record of the last ftp_auth (user_ret,
\* pass_ret, npass, auth) is readable in the state right after ftp_auth
\* returned and is dropped by the next step.  In the ideal session the
\* transport never fails, the server answers every command with the one
\* line that accepts it, lets the user in, reports the file's size and sends
\* the file's bytes from the offset asked for, and the caller opens for
\* reading and only reads.  Once a session strays from it (ideal = FALSE)
\* the record of the bytes delivered is dropped.
Quiet(gg) ==
    [gg EXCEPT !.auth = "none", !.user_ret = 0, !.pass_ret = 0, !.npass = 0,
               !.wfail = FALSE, !.stale = FALSE, !.missed = FALSE]

Env(gg, ok) ==
    IF gg.ideal /\ ok THEN gg
    ELSE [gg EXCEPT !.ideal = FALSE, !.in_order = TRUE, !.next = 0,
                    !.pre_next = 0]

\* The record of one ftp_send_command with outcome o: whether the command
\* was written (sent) or its write failed (wfail), whether the line matched
\* was a stale one or an accepted line was missed, and the verb of the last
\* reply accepted on the control connection ("RETR", "STOR" or "other").
\* hs says that the handshake of ftp_connect_control_connection (banner,
\* ftp_auth, ftp_type) returned 0 on the control connection now open.
Observed(gg, o) ==
    [gg EXCEPT !.sent = @ \/ o.wrote,
               !.wfail = ~o.wrote /\ ~o.crash,
               !.stale = o.stale, !.missed = o.missed,
               !.accepted = IF o.ret <= 0 THEN @
                            ELSE IF o.cmd \in {"RETR", "STOR"} THEN o.cmd
                            ELSE "other"]

\* a command went out on the control connection
Noted(gg, o) == Env(Observed(Quiet(gg), o), o.ideal)

\* the control connection is closed: no reply accepted on it, no handshake
Closed(gg) == [gg EXCEPT !.accepted = "none", !.hs = FALSE]

\* the offset a seek asks for, before any clamping (0 when it asks for none)
Asked(pos, whence) ==
    IF whence = "SEEK_SET" THEN pos
    ELSE IF whence = "SEEK_CUR" THEN s.position + pos
    ELSE IF whence = "SEEK_END" THEN s.filesize + pos
    ELSE 0

\* a protocol callback is entered: the observer's per-call record is reset
Entry(gg, name, pos, whence) ==
    [Quiet(gg) EXCEPT !.op = name, !.pre_position = s.position,
                      !.pre_filesize = s.filesize,
                      !.pre_next = gg.next, !.sent = FALSE,
                      !.asked = Asked(pos, whence), !.whence = whence,
                      !.nreconn = 0, !.ndread = 0, !.closes = 0]

(* -------------------------------- Init --------------------------------- *)

Init ==
    /\ s = [conn_control |-> FALSE, conn_control_block_flag |-> 0,
            conn_data |-> FALSE, control_buf |-> <<>>,
            credencials |-> "user", filesize |-> 0, position |-> 0,
            state |-> "UNKNOWN", is_streamed |-> FALSE]
    /\ l = Locals0
    /\ g = [op |-> "none", pre_position |-> 0, pre_filesize |-> 0,
            pre_next |-> 0, sent |-> FALSE,
            asked |-> 0, whence |-> "SEEK_SET",
            auth |-> "none", user_ret |-> 0, pass_ret |-> 0, npass |-> 0,
            nreconn |-> 0, ndread |-> 0, closes |-> 0,
            wfail |-> FALSE, stale |-> FALSE, missed |-> FALSE,
            accepted |-> "none", hs |-> FALSE,
            next |-> 0, in_order |-> TRUE, ideal |-> TRUE]
    /\ e = [ctl_rx |-> <<>>, marker |-> 0, off |-> -1]


(* ------------------------- the control connection ---------------------- *)

\* ftp_connect_control_connection, up to ffurl_open: a context that has a
\* control connection keeps it; otherwise the TCP open succeeds or fails
ftp_connect_control_connection ==
    /\ l.pc = "connect_control"
    /\ IF s.conn_control
       THEN /\ s' = [s EXCEPT !.conn_control_block_flag = 0]
            /\ l' = Return(l, 0)
            /\ g' = Quiet(g)
            /\ UNCHANGED e
       ELSE \E ok \in BOOLEAN :
            /\ s' = [s EXCEPT !.conn_control_block_flag = 0,
                              !.conn_control = ok]
            /\ l' = IF ok THEN [l EXCEPT !.pc = "cc_447"]
                          ELSE Return(l, TransportErr)
            /\ g' = Env(Quiet(g), ok)
            /\ e' = CloseSockets(e)

\* ftp_connect_control_connection, the banner: ftp_status(connect_codes)
cc_447 ==
    /\ l.pc = "cc_447"
    /\ \E rep \in ReplySeqs(connect_codes) :
       \E o \in ftp_status([s EXCEPT !.conn_control_block_flag = 0],
                           e.ctl_rx \o rep, Len(e.ctl_rx), connect_codes) :
            /\ s' = [s EXCEPT !.conn_control_block_flag = o.flag,
                              !.control_buf = <<>>]
            /\ e' = [e EXCEPT !.ctl_rx = o.rx]
            /\ g' = Env([Quiet(g) EXCEPT
                              !.stale = o.stale, !.missed = o.missed,
                              !.accepted = IF o.ret = 0 THEN @ ELSE "other"],
                        rep = <<220>> /\ o.rx = <<>>)
            /\ l' = IF o.ret = 0 THEN Return(l, EACCES)
                                 ELSE [l EXCEPT !.pc = "auth"]

\* av_strtok(credencials, ":"): whether ftp_auth has a password
HasPass(c) == c.credencials = "user:pass"

\* ftp_auth after the USER exchange returned err: "PASS" to go on with PASS,
\* else the function's result
ftp_auth_user(err, pass) ==
    IF err = 331
    THEN IF pass THEN "PASS" ELSE "denied"
    ELSE IF err = 0 THEN "denied" ELSE "ok"

\* ftp_auth after the PASS exchange returned err
ftp_auth_pass(err) == IF err = 0 THEN "denied" ELSE "ok"

\* ftp_auth: USER, and the function's result unless PASS is needed.  The
\* caller goes on with ftp_type when the result is 0 and returns it otherwise.
ftp_auth ==
    /\ l.pc = "auth"
    /\ \E o \in ftp_send_command(s, e, "USER", 0, user_codes) :
       LET r == ftp_auth_user(o.ret, HasPass(s))
       IN   /\ s' = o.c
            /\ e' = o.env
            /\ g' = [Env(Noted(g, o), r # "denied")
                            EXCEPT !.user_ret = o.ret, !.pass_ret = 0,
                                        !.npass = 0,
                                        !.auth = IF r = "PASS" THEN "none" ELSE r]
            /\ l' = IF o.crash THEN Crashed(l)
                    ELSE IF r = "PASS" THEN [l EXCEPT !.pc = "auth_256"]
                    ELSE IF r = "denied" THEN Return(l, EACCES)
                    ELSE [l EXCEPT !.pc = "type"]

\* ftp_auth: PASS
auth_256 ==
    /\ l.pc = "auth_256"
    /\ \E o \in ftp_send_command(s, e, "PASS", 0, pass_codes) :
       LET r == ftp_auth_pass(o.ret)
       IN   /\ s' = o.c
            /\ e' = o.env
            /\ g' = [Env(Observed(g, o), o.ideal /\ r # "denied")
                            EXCEPT !.pass_ret = o.ret,
                                        !.npass = g.npass + (IF o.wrote THEN 1 ELSE 0),
                                        !.auth = r]
            /\ l' = IF o.crash THEN Crashed(l)
                    ELSE IF r = "denied" THEN Return(l, EACCES)
                    ELSE [l EXCEPT !.pc = "type"]

\* ftp_type, and the return of ftp_connect_control_connection
ftp_type ==
    /\ l.pc = "type"
    /\ \E o \in ftp_send_command(s, e, "TYPE", 0, type_codes) :
            /\ s' = o.c
            /\ e' = o.env
            /\ g' = [Noted(g, o) EXCEPT !.hs = ~o.crash /\ o.ret # 0]
            /\ l' = IF o.crash THEN Crashed(l)
                    ELSE IF o.ret = 0 THEN Return(l, EIO)
                    ELSE Return(l, 0)

\* ftp_abort: both connections closed, the control connection opened again;
\* the result is that of ftp_connect_control_connection
ftp_abort ==
    /\ l.pc = "abort"
    /\ s' = ftp_close_both_connections(s)
    /\ e' = CloseSockets(e)
    /\ l' = [l EXCEPT !.pc = "connect_control"]
    /\ g' = Closed(Quiet(g))

(* --------------------------------- open -------------------------------- *)

\* ftp_open: the fields it sets, then ftp_connect_control_connection
ftp_open ==
    /\ l.pc = "new"
    /\ \E fl \in OpenFlags, cred \in Credentials, ws \in {0, 1} :
        /\ s' = [s EXCEPT !.state = "DISCONNECTED", !.filesize = -1,
                          !.position = 0, !.credencials = cred]
        /\ l' = Call([l EXCEPT !.flags = fl, !.write_seekable = ws],
                     "connect_control", "open_532")
        /\ g' = Env(Entry(g, "open", 0, "SEEK_SET"), fl = "READ")
        /\ e' = e

\* the fail: label of ftp_open without ffurl_closep(&s->conn_control)
ftp_open_fail_leaks_control(c) == [c EXCEPT !.conn_data = FALSE]

\* the fail: label of ftp_open
ftp_open_fail(c) == [c EXCEPT !.conn_control = FALSE, !.conn_data = FALSE]

\* ftp_open after ftp_connect_control_connection returned
open_532 ==
    /\ l.pc = "open_532"
    /\ IF l.rv < 0
       THEN /\ s' = ftp_open_fail(s)
            /\ e' = CloseSockets(e)
            /\ l' = Return(l, l.rv)
            /\ g' = Closed(Quiet(g))
       ELSE /\ l' = [l EXCEPT !.pc = "current_dir", !.rv = 0]
            /\ g' = Quiet(g)
            /\ UNCHANGED <<s, e>>

\* ftp_current_dir as ftp_open calls it: PWD, the reply's quoted path.  A
\* negative result of ftp_send_command is taken for a reply and the NULL
\* line is read.
ftp_current_dir ==
    /\ l.pc = "current_dir"
    /\ \E o \in ftp_send_command(s, e, "PWD", 0, pwd_codes), quoted \in BOOLEAN :
       LET failed == o.ret = 0 \/ ~quoted
       IN   /\ g' = IF ~(o.crash \/ o.ret < 0) /\ failed
                    THEN Closed(Env(Noted(g, o), quoted))
                    ELSE Env(Noted(g, o), quoted)
            /\ IF o.crash \/ o.ret < 0
               THEN /\ l' = Crashed(l)
                    /\ s' = o.c
                    /\ e' = o.env
               ELSE IF failed
               THEN /\ l' = Return(l, EIO)
                    /\ s' = ftp_open_fail(o.c)
                    /\ e' = CloseSockets(o.env)
               ELSE /\ l' = [l EXCEPT !.pc = "file_size"]
                    /\ s' = o.c
                    /\ e' = o.env

\* h->is_streamed as ftp_open sets it from the result of ftp_file_size
ftp_open_streamed(c, fl, write_seekable, size_err) ==
    \/ c.is_streamed
    \/ size_err < 0 /\ fl \in {"READ", "READ_WRITE"}
    \/ write_seekable # 1 /\ fl \in {"WRITE", "READ_WRITE"}

\* ftp_file_size as ftp_open calls it, and the end of ftp_open.  Any non-zero
\* result of ftp_send_command is taken for a 213 line: with a negative one
\* strtoll reads through the NULL line.
ftp_file_size ==
    /\ l.pc = "file_size"
    /\ \E o \in ftp_send_command(s, e, "SIZE", 0, size_codes), sz \in SizeReplies :
       LET err == IF o.ret # 0 THEN 0 ELSE EIO
           c1 == [o.c EXCEPT !.filesize = IF o.ret # 0 THEN sz ELSE -1]
       IN   /\ g' = Env(Noted(g, o), sz >= 0)
            /\ e' = o.env
            /\ IF o.crash \/ o.ret < 0
               THEN /\ l' = Crashed(l)
                    /\ s' = o.c
               ELSE /\ l' = Return(l, 0)
                    /\ s' = [c1 EXCEPT !.is_streamed =
                                ftp_open_streamed(c1, l.flags,
                                                  l.write_seekable, err)]

(* ---------------------------- data connection ------------------------- *)

\* ftp_connect_data_connection with ftp_passive_mode: nothing but
\* state = READY when there is a data connection; else PASV and its reply.
\* A negative result of ftp_send_command is taken for a reply and strlen
\* reads the NULL line.  A 227 line parses to a port or does not; in a line
\* with "(" and no ")" the pointer end is read uninitialized, and the build
\* may take it for NULL (fail), write through it (crash) or parse on.
ftp_connect_data_connection ==
    /\ l.pc = "connect_data"
    /\ IF s.conn_data
       THEN /\ s' = [s EXCEPT !.state = "READY"]
            /\ l' = Return(l, 0)
            /\ g' = Quiet(g)
            /\ UNCHANGED e
       ELSE \E o \in ftp_send_command(s, e, "PASV", 0, pasv_codes),
               parse \in {"port", "fail", "crash"} :
            /\ s' = o.c
            /\ e' = o.env
            /\ g' = Env(Noted(g, o), parse = "port")
            /\ l' = IF o.crash \/ o.ret < 0 THEN Crashed(l)
                    ELSE IF o.ret = 0 THEN Return(l, EIO)
                    ELSE IF parse = "crash" THEN Crashed(l)
                    ELSE IF parse = "fail" THEN Return(l, EIO)
                    ELSE [l EXCEPT !.pc = "cd_485"]

\* ftp_connect_data_connection: ffurl_open of the data connection, and the
\* end of the function when position is 0
cd_485 ==
    /\ l.pc = "cd_485"
    /\ \E ok \in BOOLEAN :
        /\ g' = Env(Quiet(g), ok)
        /\ e' = [e EXCEPT !.off = -1]
        /\ IF ~ok
           THEN /\ l' = Return(l, TransportErr)
                /\ s' = s
           ELSE IF s.position # 0
           THEN /\ l' = [l EXCEPT !.pc = "restart"]
                /\ s' = [s EXCEPT !.conn_data = TRUE]
           ELSE /\ l' = Return(l, 0)
                /\ s' = [s EXCEPT !.conn_data = TRUE, !.state = "READY"]

\* ftp_restart(position), and the end of ftp_connect_data_connection
ftp_restart ==
    /\ l.pc = "restart"
    /\ \E o \in ftp_send_command(s, e, "REST", s.position, rest_codes) :
        /\ e' = o.env
        /\ g' = Noted(g, o)
        /\ IF o.crash
           THEN /\ l' = Crashed(l)
                /\ s' = o.c
           ELSE IF o.ret = 0
           THEN /\ l' = Return(l, EIO)
                /\ s' = o.c
           ELSE /\ l' = Return(l, 0)
                /\ s' = [o.c EXCEPT !.state = "READY"]

(* ----------------------- ftp_seek before ftp_abort --------------------- *)

\* new_pos of the switch in ftp_seek
ftp_seek_target(c, pos, whence) ==
    IF whence = "SEEK_SET" THEN pos
    ELSE IF whence = "SEEK_CUR" THEN c.position + pos
    ELSE c.filesize + pos

\* ftp_seek without its FFMIN(s->filesize, new_pos)
ftp_seek_clamp_no_upper(c, new_pos) == Max(0, new_pos)

\* FFMAX(0, new_pos), and FFMIN(filesize, new_pos) when the size is known
ftp_seek_clamp(c, new_pos) ==
    IF c.filesize >= 0 THEN Min(c.filesize, Max(0, new_pos))
    ELSE Max(0, new_pos)

\* ftp_seek without its if (h->is_streamed) return AVERROR(EIO)
ftp_seek_decide_ignores_streamed(c, is_streamed, pos, whence) ==
    IF whence = "AVSEEK_SIZE" THEN [do |-> "return", v |-> c.filesize]
    ELSE IF whence \notin {"SEEK_SET", "SEEK_CUR", "SEEK_END"}
         THEN [do |-> "return", v |-> EINVAL]
    ELSE IF whence = "SEEK_END" /\ c.filesize < 0
         THEN [do |-> "return", v |-> EIO]
    ELSE LET np == ftp_seek_clamp(c, ftp_seek_target(c, pos, whence))
         IN  IF np # c.position THEN [do |-> "move", v |-> np]
             ELSE [do |-> "return", v |-> np]

\* ftp_seek whose case AVSEEK_SIZE falls through to case SEEK_SET
ftp_seek_decide_size_falls_through(c, is_streamed, pos, whence) ==
    IF whence \notin {"AVSEEK_SIZE", "SEEK_SET", "SEEK_CUR", "SEEK_END"}
         THEN [do |-> "return", v |-> EINVAL]
    ELSE IF whence = "SEEK_END" /\ c.filesize < 0
         THEN [do |-> "return", v |-> EIO]
    ELSE IF is_streamed THEN [do |-> "return", v |-> EIO]
    ELSE LET w == IF whence = "AVSEEK_SIZE" THEN "SEEK_SET" ELSE whence
             np == ftp_seek_clamp(c, ftp_seek_target(c, pos, w))
         IN  IF np # c.position THEN [do |-> "move", v |-> np]
             ELSE [do |-> "return", v |-> np]

\* what ftp_seek does before any ftp_abort: "return" with a value, or "move"
\* to a new position
ftp_seek_decide(c, is_streamed, pos, whence) ==
    IF whence = "AVSEEK_SIZE" THEN [do |-> "return", v |-> c.filesize]
    ELSE IF whence \notin {"SEEK_SET", "SEEK_CUR", "SEEK_END"}
         THEN [do |-> "return", v |-> EINVAL]
    ELSE IF whence = "SEEK_END" /\ c.filesize < 0
         THEN [do |-> "return", v |-> EIO]
    ELSE IF is_streamed THEN [do |-> "return", v |-> EIO]
    ELSE LET np == ftp_seek_clamp(c, ftp_seek_target(c, pos, whence))
         IN  IF np # c.position THEN [do |-> "move", v |-> np]
             ELSE [do |-> "return", v |-> np]

\* ftp_seek up to its ftp_abort, in a context whose stack of return labels
\* is ll.stack
Seek(ll, pos, whence) ==
    LET d == ftp_seek_decide(s, s.is_streamed, pos, whence)
    IN  IF d.do = "return" THEN Return(ll, d.v)
        ELSE Call([ll EXCEPT !.new_pos = d.v], "abort", "seek_590")

(* --------------------------------- read -------------------------------- *)

\* the application may call the protocol: it holds an open context
CanCall ==
    /\ l.pc = "idle"
    /\ ~(g.op = "open" /\ l.ret < 0)
    /\ g.op # "close"

\* ftp_read is entered
ftp_read ==
    /\ CanCall
    /\ \E size \in 1 .. MaxSize :
        l' = [l EXCEPT !.pc = "read_605", !.size = size, !.retry_done = 0,
                       !.read = 0, !.pos = 0, !.ret = 0]
    /\ g' = Entry(g, "read", 0, "SEEK_SET")
    /\ UNCHANGED <<s, e>>

\* retry: if (s->state == DISCONNECTED) ftp_connect_data_connection
read_605 ==
    /\ l.pc = "read_605"
    /\ l' = IF s.state = "DISCONNECTED"
            THEN Call(l, "connect_data", "read_606")
            ELSE [l EXCEPT !.pc = "read_609", !.rv = 0]
    /\ g' = Quiet(g)
    /\ UNCHANGED <<s, e>>

read_606 ==
    /\ l.pc = "read_606"
    /\ l' = IF l.rv < 0 THEN Return(l, l.rv) ELSE [l EXCEPT !.pc = "read_609", !.rv = 0]
    /\ g' = Quiet(g)
    /\ UNCHANGED <<s, e>>

\* if (s->state == READY) ftp_retrieve: any non-zero result of
\* ftp_send_command makes the state DOWNLOADING
read_609 ==
    /\ l.pc = "read_609"
    /\ IF s.state = "READY"
       THEN \E o \in ftp_send_command(s, e, "RETR", 0, retr_codes) :
            /\ e' = o.env
            /\ g' = Noted(g, o)
            /\ IF o.crash
               THEN /\ l' = Crashed(l)
                    /\ s' = o.c
               ELSE IF o.ret = 0
               THEN /\ l' = Return(l, EIO)
                    /\ s' = o.c
               ELSE /\ l' = [l EXCEPT !.pc = "read_613"]
                    /\ s' = [o.c EXCEPT !.state = "DOWNLOADING"]
       ELSE /\ l' = [l EXCEPT !.pc = "read_613"]
            /\ g' = Quiet(g)
            /\ UNCHANGED <<s, e>>

\* ffurl_read on the data connection: an error, or up to size bytes of what
\* the server is sending (nothing when it is sending nothing, has sent all,
\* or dropped the connection)
DataRead(env, size) ==
    {TransportErr} \cup (IF env.off < 0 THEN {0} ELSE 0 .. size)

\* the server sent bytes of a file of the size it reported, and sent some
\* unless the file was at its end
DataIdeal(c, env, n) ==
    /\ env.off >= 0
    /\ n >= 0
    /\ env.off + n <= Max(env.off, c.filesize)
    /\ n = 0 => env.off >= c.filesize

\* ftp_read with if (s->position == s->filesize) for its end-of-file test
ftp_read_eof_exact(c, read) == read >= 0 /\ c.position + read = c.filesize

\* if (read >= 0) { s->position += read; if (s->position >= s->filesize):
\* the read reached the end of the file and ftp_abort follows
ftp_read_eof(c, read) == read >= 0 /\ c.position + read >= c.filesize

\* ftp_read: the data read and the position after it
read_613 ==
    /\ l.pc = "read_613"
    /\ IF s.conn_data /\ s.state = "DOWNLOADING"
       THEN \E n \in DataRead(e, l.size) :
            /\ s' = [s EXCEPT !.position = IF n >= 0 THEN @ + n ELSE @]
            /\ e' = [e EXCEPT !.off = IF n >= 0 /\ @ >= 0 THEN @ + n ELSE @]
            /\ g' = Env([Quiet(g) EXCEPT
                              !.ndread = @ + 1,
                              !.in_order = @ /\ (n > 0 => e.off = g.next),
                              !.next = IF n > 0 THEN e.off + n ELSE @],
                        DataIdeal(s, e, n))
            /\ l' = IF ftp_read_eof(s, n)
                    THEN Call([l EXCEPT !.read = n], "abort", "read_618")
                    ELSE [l EXCEPT !.read = n, !.pc = "read_622"]
       ELSE /\ l' = Return(l, EIO)
            /\ g' = Quiet(g)
            /\ UNCHANGED <<s, e>>

read_618 ==
    /\ l.pc = "read_618"
    /\ l' = IF l.rv < 0 THEN Return(l, EIO) ELSE [l EXCEPT !.pc = "read_622", !.rv = 0]
    /\ g' = Quiet(g)
    /\ UNCHANGED <<s, e>>

\* if (!read && s->position < s->filesize && !h->is_streamed): reconnect
ftp_read_reconnect(c, read) ==
    read = 0 /\ c.position < c.filesize /\ ~c.is_streamed

read_622 ==
    /\ l.pc = "read_622"
    /\ IF ftp_read_reconnect(s, l.read)
       THEN /\ l' = Call([l EXCEPT !.pos = s.position], "abort", "read_627")
            /\ g' = [Quiet(g) EXCEPT !.nreconn = Min(@ + 1, MaxReconn)]
       ELSE /\ l' = Return(l, l.read)
            /\ g' = Quiet(g)
    /\ UNCHANGED <<s, e>>

\* ftp_read after the reconnecting ftp_abort returned: ftp_seek(pos, SEEK_SET)
read_627 ==
    /\ l.pc = "read_627"
    /\ l' = IF l.rv < 0 THEN Return(l, l.rv)
            ELSE Seek([l EXCEPT !.stack = <<"read_631">> \o @, !.rv = 0],
                      l.pos, "SEEK_SET")
    /\ g' = Quiet(g)
    /\ UNCHANGED <<s, e>>

read_631 ==
    /\ l.pc = "read_631"
    /\ l' = IF l.rv < 0 THEN Return(l, l.rv)
            ELSE IF l.retry_done = 0
            THEN [l EXCEPT !.retry_done = 1, !.pc = "read_605", !.rv = 0,
                           !.read = 0, !.pos = 0, !.new_pos = 0]
            ELSE Return(l, l.read)
    /\ g' = Quiet(g)
    /\ UNCHANGED <<s, e>>

(* --------------------------------- write ------------------------------- *)

ftp_write ==
    /\ CanCall
    /\ \E size \in 1 .. MaxSize :
        /\ s.position + size <= MaxPos
        /\ l' = [l EXCEPT !.pc = "write_655", !.size = size, !.ret = 0]
    /\ g' = Env(Entry(g, "write", 0, "SEEK_SET"), FALSE)
    /\ UNCHANGED <<s, e>>

write_655 ==
    /\ l.pc = "write_655"
    /\ l' = IF s.state = "DISCONNECTED"
            THEN Call(l, "connect_data", "write_656")
            ELSE [l EXCEPT !.pc = "write_659", !.rv = 0]
    /\ g' = Quiet(g)
    /\ UNCHANGED <<s, e>>

write_656 ==
    /\ l.pc = "write_656"
    /\ l' = IF l.rv < 0 THEN Return(l, l.rv) ELSE [l EXCEPT !.pc = "write_659", !.rv = 0]
    /\ g' = Quiet(g)
    /\ UNCHANGED <<s, e>>

\* if (s->state == READY) ftp_store
write_659 ==
    /\ l.pc = "write_659"
    /\ IF s.state = "READY"
       THEN \E o \in ftp_send_command(s, e, "STOR", 0, stor_codes) :
            /\ e' = o.env
            /\ g' = Noted(g, o)
            /\ IF o.crash
               THEN /\ l' = Crashed(l)
                    /\ s' = o.c
               ELSE IF o.ret = 0
               THEN /\ l' = Return(l, EIO)
                    /\ s' = o.c
               ELSE /\ l' = [l EXCEPT !.pc = "write_663"]
                    /\ s' = [o.c EXCEPT !.state = "UPLOADING"]
       ELSE /\ l' = [l EXCEPT !.pc = "write_663"]
            /\ g' = Quiet(g)
            /\ UNCHANGED <<s, e>>

\* ftp_write without its s->filesize = FFMAX(s->filesize, s->position)
ftp_write_update_keeps_filesize(c, written) ==
    IF written > 0
    THEN [c EXCEPT !.position = c.position + written]
    ELSE c

\* position and filesize after ffurl_write returned written
ftp_write_update(c, written) ==
    IF written > 0
    THEN [c EXCEPT !.position = c.position + written,
                   !.filesize = Max(c.filesize, c.position + written)]
    ELSE c

\* ftp_write: the data write (an error, or up to size bytes taken)
write_663 ==
    /\ l.pc = "write_663"
    /\ IF s.conn_data /\ s.state = "UPLOADING"
       THEN \E written \in {TransportErr} \cup (0 .. l.size) :
            /\ s' = ftp_write_update(s, written)
            /\ l' = Return(l, written)
       ELSE /\ l' = Return(l, EIO)
            /\ s' = s
    /\ g' = Quiet(g)
    /\ UNCHANGED e

(* --------------------------------- seek -------------------------------- *)


\* ftp_seek as the application calls it; offsets are kept within the
\* model's positions
ftp_seek ==
    /\ CanCall
    /\ \E pos \in SeekOffsets, whence \in Whences :
        /\ whence = "SEEK_CUR" => s.position + pos <= MaxPos
        /\ whence = "SEEK_END" => s.filesize + pos <= MaxPos
        /\ l' = Seek(l, pos, whence)
        /\ g' = Env(Entry(g, "seek", pos, whence), FALSE)
    /\ UNCHANGED <<s, e>>

\* ftp_seek after ftp_abort returned
seek_590 ==
    /\ l.pc = "seek_590"
    /\ IF l.rv < 0
       THEN /\ l' = Return(l, l.rv)
            /\ s' = s
       ELSE /\ l' = Return(l, l.new_pos)
            /\ s' = [s EXCEPT !.position = l.new_pos]
    /\ g' = Quiet(g)
    /\ UNCHANGED e

(* --------------------------------- close ------------------------------- *)

\* ftp_close; a closed context may be closed again
ftp_close ==
    /\ l.pc = "idle"
    /\ ~(g.op = "open" /\ l.ret < 0)
    /\ s' = ftp_close_both_connections(s)
    /\ e' = CloseSockets(e)
    /\ l' = Return(l, 0)
    /\ g' = Closed(Env([Entry(g, "close", 0, "SEEK_SET") EXCEPT
                    !.closes = IF g.op = "close" THEN 2 ELSE 1], FALSE))

Next ==
    \/ ftp_open
    \/ ftp_connect_control_connection
    \/ cc_447
    \/ ftp_auth
    \/ auth_256
    \/ ftp_type
    \/ ftp_abort
    \/ open_532
    \/ ftp_current_dir
    \/ ftp_file_size
    \/ ftp_connect_data_connection
    \/ cd_485
    \/ ftp_restart
    \/ ftp_read
    \/ read_605
    \/ read_606
    \/ read_609
    \/ read_613
    \/ read_618
    \/ read_622
    \/ read_627
    \/ read_631
    \/ ftp_write
    \/ write_655
    \/ write_656
    \/ write_659
    \/ write_663
    \/ ftp_seek
    \/ seek_590
    \/ ftp_close

Spec == Init /\ [][Next]_vars

(* ======================================================================= *)
(* The line reader and the command engine, character by character          *)
(* ======================================================================= *)

(* A second specification over the same variables, for what the first one  *)
(* takes in whole lines: ftp_getc, ftp_get_line, ftp_flush_control_input,  *)
(* ftp_status and ftp_send_command on one control connection.  Here        *)
(* s.control_buf and e.ctl_rx hold characters: "ok" stands for the text of *)
(* a line that starts with an accepted code, "no" for any other text (a    *)
(* line without either is shorter than 3 characters), and "\r", "\n".      *)

\* most characters unread in the control socket
MaxRx == 3
\* most characters the server sends before a "\n"
MaxLine == 2
\* char buf[CONTROL_BUFFER_SIZE] of ftp_status and ftp_flush_control_input
CONTROL_BUFFER_SIZE == 1024
\* wait_count of ftp_status
WaitCount == 100
\* AVERROR_EXIT, and the -1 ftp_getc returns at end of input
AVERROR_EXIT == -1414092869
GetcEof == -1

Chars == {"ok", "no", "\r", "\n"}

\* sequences of at most n characters
CharSeqs(n) == UNION {[1 .. k -> Chars] : k \in 0 .. n}

\* no more than MaxLine characters before a "\n", after `run` of them
RECURSIVE LinesShort(_, _)
LinesShort(chars, run) ==
    IF chars = <<>> THEN run <= MaxLine
    ELSE IF Head(chars) = "\n" THEN LinesShort(Tail(chars), 0)
    ELSE run < MaxLine /\ LinesShort(Tail(chars), run + 1)

LineLocals0 ==
    [pc |-> "new", stack |-> <<>>, rv |-> 0, ch |-> "",
     ori_block_flag |-> 0, line |-> <<>>, flush_ori |-> 0,
     pref_code_found |-> 0, wait_count |-> 0]

\* what a call leaves when it returns v to the caller on the stack
LineReturn(ll, v) ==
    [ll EXCEPT !.pc = Head(ll.stack), !.stack = Tail(ll.stack), !.rv = v,
               !.ch = ""]

\* the observer's record: io and io_flag are the transport call the last
\* step made on the control connection and conn_control_block_flag (what
\* the interrupt callback returns) during it; of the running ftp_get_line,
\* entry_flag is the flag when it was entered, consumed says that a
\* character of the line was taken, midread that the transport was read
\* after that
LineQuiet(gg) == [gg EXCEPT !.io = "none", !.io_flag = 0]

LineInit ==
    /\ s = [conn_control |-> FALSE, conn_control_block_flag |-> 0,
            control_buf |-> <<>>]
    /\ l = LineLocals0
    /\ g = [io |-> "none", io_flag |-> 0, entry_flag |-> 0,
            consumed |-> FALSE, midread |-> FALSE]
    /\ e = [ctl_rx |-> <<>>]

\* ftp_connect_control_connection: conn_control_block_flag = 0, ffurl_open,
\* then ftp_status for the banner
connect_429 ==
    /\ l.pc = "new"
    /\ \E ok \in BOOLEAN :
        /\ s' = [s EXCEPT !.conn_control_block_flag = 0, !.conn_control = ok]
        /\ l' = IF ok THEN [l EXCEPT !.pc = "status"] ELSE l
        /\ g' = [g EXCEPT !.io = "open",
                          !.io_flag = s'.conn_control_block_flag]
        /\ e' = e

\* ftp_status: blocking mode set, locals initialized
status_163 ==
    /\ l.pc = "status"
    /\ s' = [s EXCEPT !.conn_control_block_flag = 0]
    /\ l' = [l EXCEPT !.pc = "get_line", !.stack = <<"status_165">>,
                      !.pref_code_found = 0, !.wait_count = WaitCount]
    /\ g' = LineQuiet(g)
    /\ e' = e

\* ftp_get_line is entered: ori_block_flag saved, q = line
ftp_get_line ==
    /\ l.pc = "get_line"
    /\ l' = [l EXCEPT !.pc = "getc", !.line = <<>>, !.rv = 0,
                      !.ori_block_flag = s.conn_control_block_flag]
    /\ g' = [LineQuiet(g) EXCEPT !.consumed = FALSE, !.midread = FALSE,
                                 !.entry_flag = s.conn_control_block_flag]
    /\ UNCHANGED <<s, e>>

\* ftp_getc with if (s->conn_control_block_flag) left out
ftp_getc_blocked_never(c) == FALSE

\* ftp_getc: with an empty buffer and the flag set it returns AVERROR_EXIT
\* and reads nothing
ftp_getc_blocked(c) == c.conn_control_block_flag # 0

\* ftp_getc: the next character of the buffer; with an empty buffer,
\* AVERROR_EXIT or one ffurl_read (an error, 0 bytes, or some of what the
\* server has sent by then)
ftp_getc ==
    /\ l.pc = "getc"
    /\ IF s.control_buf # <<>>
       THEN /\ s' = [s EXCEPT !.control_buf = Tail(@)]
            /\ l' = [l EXCEPT !.pc = "get_line_113", !.rv = 0,
                              !.ch = Head(s.control_buf)]
            /\ g' = LineQuiet(g)
            /\ e' = e
       ELSE IF ftp_getc_blocked(s)
       THEN /\ l' = [l EXCEPT !.pc = "get_line_113", !.rv = AVERROR_EXIT]
            /\ g' = LineQuiet(g)
            /\ UNCHANGED <<s, e>>
       ELSE /\ g' = [g EXCEPT !.io = "read",
                              !.io_flag = s.conn_control_block_flag,
                              !.midread = g.consumed]
            /\ \/ /\ \E err \in {TransportErr, GetcEof} :
                        l' = [l EXCEPT !.pc = "get_line_113", !.rv = err]
                  /\ UNCHANGED <<s, e>>
               \/ \E more \in CharSeqs(MaxRx - Len(e.ctl_rx)) :
                  LET avail == e.ctl_rx \o more
                  IN  /\ avail # <<>>
                      /\ LinesShort(avail, Len(l.line))
                      /\ \E len \in 1 .. Len(avail) :
                          /\ s' = [s EXCEPT !.control_buf = SubSeq(avail, 2, len)]
                          /\ e' = [e EXCEPT !.ctl_rx =
                                       SubSeq(avail, len + 1, Len(avail))]
                          /\ l' = [l EXCEPT !.pc = "get_line_113", !.rv = 0,
                                            !.ch = avail[1]]

\* ftp_get_line without conn_control_block_flag = 0 after a character
ftp_get_line_continue_keeps_flag(c) == c

\* ftp_get_line after a character that is not "\n": the line need to be
\* finished
ftp_get_line_continue(c) == [c EXCEPT !.conn_control_block_flag = 0]

\* ftp_get_line after ftp_getc: an error is returned, a "\n" ends the line
\* (a "\r" before it dropped), both with the flag restored; any other
\* character is stored if it fits
get_line_113 ==
    /\ l.pc = "get_line_113"
    /\ e' = e
    /\ IF l.rv < 0
       THEN /\ s' = [s EXCEPT !.conn_control_block_flag = l.ori_block_flag]
            /\ l' = LineReturn(l, l.rv)
            /\ g' = LineQuiet(g)
       ELSE IF l.ch = "\n"
       THEN /\ s' = [s EXCEPT !.conn_control_block_flag = l.ori_block_flag]
            /\ l' = LET q == Len(l.line)
                    IN  [LineReturn(l, 0) EXCEPT !.line =
                            IF q > 0 /\ l.line[q] = "\r"
                            THEN SubSeq(l.line, 1, q - 1) ELSE l.line]
            /\ g' = LineQuiet(g)
       ELSE /\ s' = ftp_get_line_continue(s)
            /\ l' = [l EXCEPT !.pc = "getc", !.ch = "", !.line =
                         IF Len(l.line) < CONTROL_BUFFER_SIZE - 1
                         THEN Append(l.line, l.ch) ELSE l.line]
            /\ g' = [LineQuiet(g) EXCEPT !.consumed = TRUE]

\* ftp_status after ftp_get_line: on AVERROR_EXIT it polls again while no
\* accepted code was found and wait_count lasts, on any other error it
\* returns; after a line the flag is set and the line is matched
status_165 ==
    /\ l.pc = "status_165"
    /\ g' = LineQuiet(g)
    /\ e' = e
    /\ IF l.rv < 0
       THEN IF l.rv = AVERROR_EXIT /\ l.pref_code_found = 0
            THEN /\ l' = [l EXCEPT !.wait_count = @ - 1,
                                   !.pc = IF l.wait_count # 0 THEN "get_line"
                                          ELSE "status_ret",
                                   !.stack = IF l.wait_count # 0
                                             THEN <<"status_165">> ELSE <<>>]
                 /\ s' = s
            ELSE /\ l' = [l EXCEPT !.pc = "status_ret"]
                 /\ s' = s
       ELSE /\ s' = [s EXCEPT !.conn_control_block_flag = 1]
            /\ l' = [l EXCEPT !.pc = "get_line", !.stack = <<"status_165">>,
                              !.pref_code_found =
                                  IF @ = 0 /\ l.line # <<>> /\ l.line[1] = "ok"
                                  THEN 1 ELSE @]

\* between two calls of the command engine
LineIdle == l.pc \in {"status_ret", "send_ret"}

\* ftp_send_command: ftp_flush_control_input sets the flag and reads a line
flush_138 ==
    /\ LineIdle
    /\ s.conn_control
    /\ s' = [s EXCEPT !.conn_control_block_flag = 1]
    /\ l' = [l EXCEPT !.pc = "get_line", !.stack = <<"flush_141">>,
                      !.flush_ori = s.conn_control_block_flag,
                      !.pref_code_found = 0, !.wait_count = 0]
    /\ g' = LineQuiet(g)
    /\ e' = e

\* ftp_flush_control_input after ftp_get_line (which never returns more
\* than 0): the flag is restored, an error other than AVERROR_EXIT ends
\* ftp_send_command
flush_141 ==
    /\ l.pc = "flush_141"
    /\ s' = [s EXCEPT !.conn_control_block_flag = l.flush_ori]
    /\ l' = [l EXCEPT !.pc = IF l.rv < 0 /\ l.rv # AVERROR_EXIT
                             THEN "send_ret" ELSE "send_216",
                      !.line = <<>>]
    /\ g' = LineQuiet(g)
    /\ e' = e

\* ftp_send_command: the command is written in blocking mode, then
\* ftp_status
send_216 ==
    /\ l.pc = "send_216"
    /\ s' = [s EXCEPT !.conn_control_block_flag = 0]
    /\ g' = [g EXCEPT !.io = "write", !.io_flag = s'.conn_control_block_flag]
    /\ e' = e
    /\ \E err \in {0, TransportErr} :
        l' = [l EXCEPT !.pc = IF err < 0 THEN "send_ret" ELSE "status",
                       !.rv = err]

\* ftp_close_both_connections: the control connection is closed, and what
\* was unread in its socket is gone
close_226 ==
    /\ LineIdle
    /\ s.conn_control
    /\ s' = [s EXCEPT !.conn_control = FALSE]
    /\ l' = [LineLocals0 EXCEPT !.rv = l.rv]
    /\ g' = LineQuiet(g)
    /\ e' = [e EXCEPT !.ctl_rx = <<>>]

LineNext ==
    \/ connect_429
    \/ status_163
    \/ ftp_get_line
    \/ ftp_getc
    \/ get_line_113
    \/ status_165
    \/ flush_138
    \/ flush_141
    \/ send_216
    \/ close_226

LineSpec == LineInit /\ [][LineNext]_vars

(* ======================================================================= *)
(* Properties                                                              *)
(* ======================================================================= *)

\* the protocol callback `name` has returned to the application
Returned(name) == l.pc = "idle" /\ g.op = name

\* a step in which the application calls ftp_seek
SeekStep == l.pc = "idle" /\ g'.op = "seek"

\* a step in which the application calls ftp_close
CloseStep == l.pc = "idle" /\ g'.op = "close"

Moves == {"SEEK_SET", "SEEK_CUR", "SEEK_END"}

\* C1: every ftp_read that returns n >= 0 leaves position = position before
\* the call + n, also when the read reaches the end of the file or the size
\* is unknown.
C1_ReadAdvancesPosition ==
    (Returned("read") /\ l.ret >= 0) => s.position = g.pre_position + l.ret

\* C2: with a server that reports the file's size and sends exactly the
\* file's bytes from the requested offset, and a caller that only reads,
\* every byte is delivered once and in order (each chunk starts where the
\* last one ended), and the read issued after the last byte returns 0.
C2_EveryByteOnceInOrder ==
    (l.pc = "idle" /\ g.ideal) =>
        /\ g.in_order
        /\ (g.op = "read" /\ g.pre_next = s.filesize) => l.ret = 0

\* C3: every ftp_write that returns n > 0 leaves position = position before
\* the call + n and filesize >= position: filesize is raised to position
\* when it was smaller and is unchanged otherwise.
C3_WriteAdvancesPosition ==
    (Returned("write") /\ l.ret > 0) =>
        /\ s.position = g.pre_position + l.ret
        /\ s.filesize >= s.position
        /\ s.filesize = IF g.pre_filesize < s.position THEN s.position
                                                       ELSE g.pre_filesize

\* a write of n > 0 bytes returned and raised filesize to the new position
C3_Witness ==
    /\ Returned("write") /\ l.ret > 0
    /\ g.pre_filesize < s.position /\ s.filesize = s.position

\* the offset the seek asked for, clamped to >= 0 and, with a known size, to
\* <= filesize
Clamped(asked, filesize) ==
    IF asked < 0 THEN 0
    ELSE IF filesize >= 0 /\ asked > filesize THEN filesize
    ELSE asked

\* C4: on a seekable stream every successful seek with SEEK_SET, SEEK_CUR or
\* SEEK_END returns the offset asked for (pos, position + pos, filesize +
\* pos) clamped to >= 0 and, when filesize >= 0, to <= filesize, and leaves
\* position equal to the value returned; so seek(p, SEEK_SET) with
\* 0 <= p <= filesize leaves position = p.
C4_SeekReturnsClampedTarget ==
    (Returned("seek") /\ g.whence \in Moves /\ ~s.is_streamed /\ l.ret >= 0) =>
        /\ l.ret = Clamped(g.asked, s.filesize)
        /\ s.position = l.ret
        /\ (g.whence = "SEEK_SET" /\ 0 <= g.asked /\ g.asked <= s.filesize)
              => s.position = g.asked

\* a seek past the end of a file of known size went through ftp_abort and
\* came back with position = filesize
C4_Witness ==
    /\ Returned("seek") /\ g.whence \in Moves /\ ~s.is_streamed
    /\ s.filesize >= 0 /\ g.asked > s.filesize
    /\ l.ret = s.filesize /\ s.position = s.filesize
    /\ g.pre_position # s.position

\* C5: a ftp_read whose data read returns 0 before the end of the file makes
\* one reconnect attempt (ftp_abort, then ftp_seek back to the position) and
\* one retried data read, and no further reconnect attempt when the retried
\* read returns 0 as well.
C5_OneReconnectPerRead ==
    Returned("read") => (g.nreconn <= 1 /\ g.ndread <= 2)

\* C6: when ftp_open fails, both connections are absent, state is
\* DISCONNECTED and position is 0.
C6_FailedOpenIsClean ==
    (Returned("open") /\ l.ret < 0) =>
        /\ ~s.conn_control /\ ~s.conn_data
        /\ s.state = "DISCONNECTED" /\ s.position = 0

\* ftp_open failed with access-denied after the control connection was
\* opened (banner or authentication refused)
C6_Witness ==
    /\ Returned("open") /\ l.ret = EACCES
    /\ ~s.conn_control /\ ~s.conn_data

\* C7: on a stream marked non-seekable by ftp_open, every seek with SEEK_SET,
\* SEEK_CUR or SEEK_END returns AVERROR(EIO) at once and changes nothing:
\* the context (state, position, filesize, both connections, control buffer)
\* and the sockets are as before and no command is sent.
C7_NonSeekableSeekFails ==
    [][(SeekStep /\ g'.whence \in Moves /\ s.is_streamed) =>
          /\ l'.pc = "idle" /\ l'.ret = EIO
          /\ s' = s /\ e' = e /\ ~g'.sent]_vars

\* a seek on an open non-seekable stream with a transfer in progress
\* returned AVERROR(EIO)
C7_Witness ==
    /\ Returned("seek") /\ g.whence \in Moves /\ s.is_streamed
    /\ l.ret = EIO /\ s.conn_control /\ s.conn_data /\ s.position > 0

\* C8: ftp_auth goes by the reply matched for USER: 230 means success with
\* no PASS sent; 331 with a password means PASS sent once and success iff
\* its reply is 230; 331 without a password, or no accepted code matched for
\* USER or PASS, means access-denied.
C8_AuthFollowsReplies ==
    g.auth # "none" =>
        /\ g.user_ret = 230 => (g.npass = 0 /\ g.auth = "ok")
        /\ (g.user_ret = 331 /\ HasPass(s)) =>
              (g.npass = 1 /\ (g.auth = "ok" <=> g.pass_ret = 230))
        /\ (g.user_ret = 331 /\ ~HasPass(s)) =>
              (g.npass = 0 /\ g.auth = "denied")
        /\ g.user_ret \notin {230, 331} => g.auth = "denied"

\* C9: ftp_close returns 0 and leaves both connections absent, state
\* DISCONNECTED and position 0; a further ftp_close returns 0 and leaves
\* the context as it was.
C9_CloseIdempotent ==
    [][CloseStep =>
          /\ l'.pc = "idle" /\ l'.ret = 0
          /\ ~s'.conn_control /\ ~s'.conn_data
          /\ s'.state = "DISCONNECTED" /\ s'.position = 0
          /\ g.op = "close" => s' = s]_vars

\* ftp_close was called a second time in a row
C9_Witness ==
    /\ Returned("close") /\ g.closes = 2 /\ l.ret = 0
    /\ ~s.conn_control /\ ~s.conn_data /\ s.position = 0

\* C10: seek with AVSEEK_SIZE returns filesize and changes nothing, on a
\* seekable stream or not: the context (state, position, filesize, both
\* connections, control buffer) and the sockets are as before and no command
\* is sent.
C10_SeekSizeIsPure ==
    [][(SeekStep /\ g'.whence = "AVSEEK_SIZE") =>
          /\ l'.pc = "idle" /\ l'.ret = s.filesize
          /\ s' = s /\ e' = e /\ ~g'.sent]_vars

\* AVSEEK_SIZE was asked during a download on a non-seekable stream
C10_Witness ==
    /\ Returned("seek") /\ g.whence = "AVSEEK_SIZE" /\ l.ret = s.filesize
    /\ s.is_streamed /\ s.conn_data /\ s.state = "DOWNLOADING"

\* the steps of ftp_abort: ftp_close_both_connections and the steps of the
\* ftp_connect_control_connection it calls
AbortPcs == {"abort", "connect_control", "cc_447", "auth", "auth_256", "type"}

\* C11: ftp_abort does not clear position: no step of it, whether it ends
\* well or not, changes position.
C11_AbortKeepsPosition ==
    [][l.pc \in AbortPcs => s'.position = s.position]_vars

\* C12: whenever a protocol callback has returned, state = DISCONNECTED iff
\* there is no data connection; a failure inside ftp_connect_data_connection
\* leaves no data connection with state DISCONNECTED.
C12_DisconnectedIffNoData ==
    l.pc = "idle" => (s.state = "DISCONNECTED" <=> ~s.conn_data)

\* C13: state is DOWNLOADING only if the last reply accepted on the control
\* connection was the 150 of a RETR, and UPLOADING only if it was the 150 of
\* a STOR, also when the write of the command fails.
C13_TransferOnlyAfter150 ==
    /\ s.state = "DOWNLOADING" => g.accepted = "RETR"
    /\ s.state = "UPLOADING" => g.accepted = "STOR"

\* C14: when the write of a command on the control connection fails, the
\* function that sent it returns an error to its caller, authentication is
\* not reported successful, state does not become DOWNLOADING or UPLOADING
\* and no reply line is parsed.
C14_WriteFailurePropagates ==
    g.wfail =>
        /\ IF l.pc = "idle" THEN l.ret < 0 ELSE l.rv < 0
        /\ g.auth # "ok"
        /\ s.state \notin {"DOWNLOADING", "UPLOADING"}
        /\ l.pc # "crashed"

\* C15: whenever ftp_read or ftp_write sends RETR or STOR with position =
\* p > 0, the server holds the restart marker p: a REST p was accepted on
\* this control connection after the data connection was opened; also in the
\* call that follows a failed ftp_connect_data_connection.
C15_RestBeforeTransfer ==
    [][(/\ l.pc \in {"read_609", "write_659"} /\ s.state = "READY"
        /\ s.conn_control /\ ~g'.wfail /\ s.position > 0)
          => e.marker = s.position]_vars

\* C16: the line matched as the reply of a command is never a line that was
\* pending on the control connection before the command was written (a line
\* the server sent in reply to an earlier command).
C16_NoStaleReplyMatched == ~g.stale

\* C17: ftp_status returns 0 only if no line with an accepted code arrives
\* on the control connection during its up to 100 waits.
C17_PollsReadLateLines == ~g.missed

\* C18: whenever a protocol callback has returned, there is a control
\* connection iff the handshake on it (banner, ftp_auth, ftp_type) completed;
\* a failed re-open inside ftp_abort leaves no control connection open.
C18_ControlIffAuthenticated ==
    l.pc = "idle" => (s.conn_control <=> g.hs)

\* C19: whenever a protocol callback has returned, 0 <= position, and
\* position <= filesize when filesize >= 0, also after a read in which the
\* server delivered more bytes than filesize - position.
C19_PositionWithinFile ==
    l.pc = "idle" =>
        /\ 0 <= s.position
        /\ s.filesize >= 0 => s.position <= s.filesize

\* a read returned more bytes than the file had left
C19_Witness ==
    /\ Returned("read") /\ l.ret > 0 /\ s.filesize >= 0
    /\ g.pre_position + l.ret > s.filesize
    /\ s.position <= s.filesize

\* C20: in every reachable state, state DOWNLOADING or UPLOADING implies
\* that there is a data connection.
C20_TransferHasDataConnection ==
    s.state \in {"DOWNLOADING", "UPLOADING"} => s.conn_data

\* a download is in progress after a read that stopped short of the end of
\* the file
C20_Witness ==
    /\ Returned("read") /\ l.ret > 0
    /\ s.state = "DOWNLOADING" /\ s.conn_data /\ s.position > 0

\* ftp_get_line has just returned l.rv to ftp_status or to
\* ftp_flush_control_input
LineReturned == l.pc \in {"status_165", "flush_141"}

\* C21: whenever the line reader returns, conn_control_block_flag has the
\* value it had when the reader was entered; and when it returns
\* AVERROR_EXIT (INTERRUPTED), the flag was set at entry and no character
\* of the current line had been consumed.
C21_InterruptOnlyBetweenLines ==
    LineReturned =>
        /\ s.conn_control_block_flag = g.entry_flag
        /\ l.rv = AVERROR_EXIT => (g.entry_flag # 0 /\ ~g.consumed)

\* C21 happens: entered with the flag set, the reader took a character from
\* the buffer, blocked in the transport for the rest of the line, and
\* returned the line with the flag set again.
C21_Witness ==
    /\ l.pc = "status_165"
    /\ l.rv = 0
    /\ g.entry_flag = 1
    /\ g.midread
    /\ s.conn_control_block_flag = 1

\* C22: every open, read and write of the control connection is made with
\* conn_control_block_flag = 0, so that the interrupt callback returns 0
\* during it; ftp_getc, when it returns AVERROR_EXIT, has not called the
\* transport; and the control buffer is empty whenever ftp_status returns.
C22_TransportOnlyUnblocked ==
    /\ g.io # "none" => g.io_flag = 0
    /\ (l.pc = "get_line_113" /\ l.rv = AVERROR_EXIT) => g.io = "none"
    /\ l.pc = "status_ret" => s.control_buf = <<>>

\* C22 happens: ftp_status has returned after an accepted line, with the
\* flag set and the buffer empty, while the socket still holds characters
\* that no read was made for.
C22_Witness ==
    /\ l.pc = "status_ret"
    /\ l.pref_code_found = 1
    /\ s.conn_control_block_flag = 1
    /\ s.control_buf = <<>>
    /\ e.ctl_rx # <<>>

=============================================================================
